---------------------------- MODULE Spec2Model ----------------------------
(***************************************************************************)
(* Model of the particle Christmas-tree scene: the control panel           *)
(* (Controls), the hand-gesture controller (GestureController), the        *)
(* formation-morphing particle system (Foliage) and the weighted region    *)
(* sampler (sampleRegions).                                                *)
(*                                                                         *)
(* Numbers are integers.  Formation scales are in units of 1 / ScaleDen,    *)
(* the particle speed is tenths, particle coordinates are hundredths and  *)
(* their per-particle speeds thousandths, colour channels are in 1 / 255, *)
(* wall-clock time is milliseconds, finger-extension ratios are tenths,   *)
(* and a draw of Math.random() is a multiple of 1 / RandomDen.            *)
(***************************************************************************)
EXTENDS Integers, Sequences, FiniteSets, TLC

VARIABLES
    appState,       \* the shell's AppState, set through setAppState
    config,         \* the shell's AppConfig (the fields the handlers touch)
    gui,            \* what the Controls effect closure captured when it last ran
    logoReader,     \* the FileReader of uploadLogo: "none" or the captured formation
    lastOp,         \* history: the handler that ran last
    lastArg,        \* history: its formation argument ("" when it has none)
    now,            \* Date.now(), in ms
    poseCounters,   \* GestureController: poseCounters.current
    isSwitchPrimed, \* GestureController: isSwitchPrimed.current
    lastSwitchTime, \* GestureController: lastSwitchTime.current
    poseHoldStart,  \* GestureController: poseHoldStart.current
    currentPose,    \* GestureController: currentPose.current
    gesture,        \* GestureController: the gesture state shown in the profile
    prevIndexPos,   \* GestureController: prevIndexPos.current is set
    initialHandSize,\* GestureController: initialHandSize.current is set
    last,           \* history: what the last result frame did
    snapAge,        \* history: ms since the last onSnap call, -1 before any
    snapsInRun,     \* history: onSnap calls in the current run of LIKE_SNAP frames
    heldFor,        \* history: ms for which last.confirmed has been confirmed
                    \*          in every result frame
    holdPose,       \* history: the last confirmed pose other than IDLE
    holdFor,        \* history: ms since holdPose replaced another pose
    setAge,         \* history: ms since the last setAppState call of a gesture,
                    \*          -1 before any
    clsHand,        \* classifier: the hand put to it
    clsPose,        \* classifier: its rawPose, "none" before it ran
    smpRegions,     \* sampleRegions: the region list
    smpDraw,        \* sampleRegions: Math.random(), in units of 1 / RandomDen
    smpResult,      \* sampleRegions: what it returned, NoResult before it ran
    positions,      \* Foliage: posAttr.array, in hundredths
    chaosPositions, \* Foliage: chaosPositions
    fireworkPositions, \* Foliage: fireworkPositions
    targetPositions,\* Foliage: targetData.positions
    colors,         \* Foliage: colAttr.array, each channel in 1/255
    targetColors,   \* Foliage: targetData.colors
    speeds,         \* Foliage: speeds, in thousandths
    frames,         \* Foliage: the frames rendered so far
    frameDelta,     \* history: delta of the last frame, in 1/60 s
    logoPointCache, \* Foliage: the formations logoPointCache has points for
    logoLoads,      \* Foliage: the formations with getCanvasImagePoints pending
    targetShape,    \* Foliage: the generator that filled targetData, a
                    \*          formation or "LOGO"
    treeArgs,       \* getTreePoint: the arguments and the random draws
    treePoint       \* getTreePoint: the returned vector (NoPoint before)

shellVars == <<appState, config>>
controlsVars == <<gui, logoReader>>
gestureVars ==
    <<poseCounters, isSwitchPrimed, lastSwitchTime, poseHoldStart, currentPose,
      gesture, prevIndexPos, initialHandSize>>
gestureHistory == <<last, snapAge, snapsInRun, heldFor, holdPose, holdFor, setAge>>
classifyVars == <<clsHand, clsPose>>
sampleVars == <<smpRegions, smpDraw, smpResult>>
treeVars == <<treeArgs, treePoint>>
foliageVars ==
    <<positions, chaosPositions, fireworkPositions, targetPositions, colors,
      targetColors, speeds, frames, frameDelta, logoPointCache, logoLoads,
      targetShape>>
vars ==
    <<appState, config, gui, logoReader, lastOp, lastArg, now, gestureVars,
      gestureHistory, classifyVars, sampleVars, treeVars, foliageVars>>

-----------------------------------------------------------------------------
(* Shell state: AppState and AppConfig *)

AppStates == {"CHAOS", "FORMED"}

\* The formations the panel's drop-down offers.
FormationType ==
    {"TREE", "PINK_TREE", "RED_TREE", "GIFT", "HAT", "STOCKING", "ELK", "SANTA",
     "TEXT", "ANKERMAKER", "ANKER", "SOUNDCORE", "EUFY"}

\* The formations the model draws its inputs from.
Formations == {"TREE", "GIFT", "TEXT"}

TextFormations == {"TEXT", "ANKERMAKER", "ANKER", "SOUNDCORE", "EUFY"}

BackgroundTypes == {"GALAXY", "IMAGE"}

BASE_PARTICLE_COUNT == 70000

\* A scale s is stored as the integer s * ScaleDen; 0 stands for "no entry".
ScaleDen == 12

\* Values of the Scale slider (0.5 .. 2.5): 7/12 and 2.5.
ScaleInputs == {7, 30}

\* Values of the Count slider (5000 .. 150000, step 1000).
CountInputs == {5000}

\* Values of the Speed slider (0.1 .. 5.0), in tenths.
SpeedInputs == {10, 50}

\* config.formationScales[v] || 1.0
StoredScale(scales, v) == IF scales[v] = 0 THEN ScaleDen ELSE scales[v]

\* Math.floor(BASE_PARTICLE_COUNT * scale)
ScaledCount(s) == (BASE_PARTICLE_COUNT * s) \div ScaleDen

-----------------------------------------------------------------------------
(* Controls: the effect that rebuilds the panel and its closures *)

\* The dependency list of the effect, without formation.
ControlsDepsNoFormation(a, c) == <<a, c.backgroundType>>

\* The dependency list of the effect, without appState.
ControlsDepsNoAppState(a, c) == <<c.backgroundType, c.formation>>

\* The dependency list of the effect: [appState, isUIVisible,
\* config.backgroundType, config.formation].  isUIVisible is a prop that no
\* code of the panel or of the gesture controller changes; it is left out.
ControlsDeps(a, c) == <<a, c.backgroundType, c.formation>>

\* What the closures of one run of the effect read: appState and config of the
\* render the effect ran in.
Capture(a, c) ==
    [appState |-> a, formation |-> c.formation, formationScales |-> c.formationScales,
     colors |-> c.colors]

\* The effect runs again, and the handlers are replaced, exactly when a
\* dependency changed between the old render (a0, c0) and the new one (a1, c1).
ControlsEffect(g, a0, c0, a1, c1) ==
    IF ControlsDeps(a0, c0) # ControlsDeps(a1, c1) THEN Capture(a1, c1) ELSE g

\* One state update of the shell followed by React's commit: the new appState
\* and config are stored and the Controls effect is re-evaluated.
Commit(a1, c1) ==
    /\ appState' = a1
    /\ config' = c1
    /\ gui' = ControlsEffect(gui, appState, config, a1, c1)

Ran(op, arg) ==
    /\ lastOp' = op
    /\ lastArg' = arg

-----------------------------------------------------------------------------
(* Controls: the handlers of the panel *)

\* params.toggleState
toggleState ==
    /\ Commit(IF gui.appState = "CHAOS" THEN "FORMED" ELSE "CHAOS", config)
    /\ Ran("toggleState", "")
    /\ UNCHANGED logoReader

\* onChange of the Formation drop-down.  The drop-down shows params.formation,
\* the formation captured by the effect, and reports a change only when another
\* option is chosen.
formationOnChange(v) ==
    /\ v # gui.formation
    /\ LET scale == StoredScale(gui.formationScales, v)
           newCount == ScaledCount(scale)
           c1 == [config EXCEPT !.formation = v, !.count = newCount]
           a1 == IF gui.appState = "CHAOS" THEN "FORMED" ELSE appState
       IN  Commit(a1, c1)
    /\ Ran("formation", v)
    /\ UNCHANGED logoReader

\* onChange of the Scale slider.
currentFormationScaleOnChange(v) ==
    /\ LET newCount == ScaledCount(v)
           c1 == [config EXCEPT !.formationScales[config.formation] = v,
                                !.count = newCount]
       IN  Commit(appState, c1)
    /\ Ran("other", "")
    /\ UNCHANGED logoReader

\* onFinishChange of the Count slider.
particleCountOnFinishChange(v) ==
    /\ Commit(appState, [config EXCEPT !.count = v])
    /\ Ran("other", "")
    /\ UNCHANGED logoReader

\* onChange of the Speed slider.
particleSpeedOnChange(v) ==
    /\ Commit(appState, [config EXCEPT !.speed = v])
    /\ Ran("other", "")
    /\ UNCHANGED logoReader

\* onChange of the background Type drop-down.
backgroundTypeOnChange(v) ==
    /\ v # config.backgroundType
    /\ Commit(appState, [config EXCEPT !.backgroundType = v])
    /\ Ran("other", "")
    /\ UNCHANGED logoReader

\* The fields of config.colors with a control in the Colors folder, and the
\* colours a user picks.
ColorFields == {"emerald", "gold", "text", "ankermaker", "anker", "soundcore", "eufy"}
ColorInputs == {"initial", "#ff0000"}

\* The colour controls that were given an onChange.
ColorHasOnChange(k) == k \in {"text", "ankermaker", "anker", "soundcore", "eufy"}

\* The user picks colour v in the control of field k: the control stores v in
\* params and calls its onChange, if it has one, which stores v in
\* config.colors.  A control reports a change only for another colour.
colorOnChange(k, v) ==
    /\ v # gui.colors[k]
    /\ LET g1 == [gui EXCEPT !.colors[k] = v]
           c1 == IF ColorHasOnChange(k) THEN [config EXCEPT !.colors[k] = v]
                                       ELSE config
       IN  /\ appState' = appState
           /\ config' = c1
           /\ gui' = ControlsEffect(g1, appState, config, appState, c1)
    /\ Ran("color", k)
    /\ UNCHANGED logoReader

\* params.uploadLogo up to reader.readAsDataURL: the Custom Shape folder holds
\* the button only for a text formation; the handler captured config.formation.
uploadLogo ==
    /\ gui.formation \in TextFormations
    /\ logoReader = "none"
    /\ logoReader' = gui.formation
    /\ Ran("uploadLogo", gui.formation)
    /\ UNCHANGED <<appState, config, gui>>

\* reader.onload of uploadLogo.
uploadLogoOnLoad ==
    /\ logoReader # "none"
    /\ Commit("FORMED",
              [config EXCEPT !.customLogos = config.customLogos \cup {logoReader}])
    /\ logoReader' = "none"
    /\ Ran("uploadLogoOnLoad", logoReader)

\* params.clearLogo
clearLogo ==
    /\ gui.formation \in TextFormations
    /\ Commit(appState,
              [config EXCEPT !.customLogos = config.customLogos \ {gui.formation}])
    /\ Ran("clearLogo", gui.formation)
    /\ UNCHANGED logoReader

-----------------------------------------------------------------------------
(* The shell's callbacks, as the gesture controller calls them *)

\* setAppState(s): the shell stores s.
setAppState(s) ==
    /\ Commit(s, config)
    /\ UNCHANGED logoReader

\* onSnap(): the shell switches to another formation.
onSnap(v) ==
    /\ v # config.formation
    /\ Commit(appState, [config EXCEPT !.formation = v])
    /\ UNCHANGED logoReader

\* GestureController calls setAppState(FORMED) for a held FIST and
\* setAppState(CHAOS) for a held OPEN.
gestureSetAppState(s) ==
    /\ setAppState(s)
    /\ Ran("other", "")

\* GestureController calls onSnap() for a thumbs-up.
gestureSnap(v) ==
    /\ onSnap(v)
    /\ Ran("other", "")

-----------------------------------------------------------------------------
(* The shell and the panel after mounting *)

InitConfig ==
    [formation |-> "TREE",
     formationScales |-> [f \in Formations |-> 0],
     count |-> BASE_PARTICLE_COUNT,
     speed |-> 10,
     backgroundType |-> "GALAXY",
     customLogos |-> {},
     colors |-> [k \in ColorFields |-> "initial"]]

InitShell ==
    /\ appState \in AppStates
    /\ config = InitConfig

InitControls ==
    /\ gui = Capture(appState, config)
    /\ logoReader = "none"

-----------------------------------------------------------------------------
(* Foliage: the particle arrays and useFrame *)

\* The model follows the first NumParticles particles of the config.count the
\* component holds.  Array index (i - 1) * 3 + c is coordinate c of particle i.
NumParticles == 2
Particles == 1 .. NumParticles
Indices == 1 .. 3 * NumParticles
ParticleOf(idx) == ((idx - 1) \div 3) + 1
CoordOf(idx) == ((idx - 1) % 3) + 1

\* Math.random() picks the arrays; the model picks them by a seed 1 .. NumSeeds.
NumSeeds == 1
Seeds == 1 .. NumSeeds

\* getRandomSpherePoint(18): a point of the ball of radius 18, each coordinate
\* within 10.00 of the centre.
ChaosArray(seed) ==
    [idx \in Indices |-> (((seed * 37 + idx * 53) * 29) % 2001) - 1000]

\* A point at distance 10 .. 40 of (0, 2.5, 0): x at 10.00 .. 19.99 on either
\* side, y - 2.5 and z within 15.00.
FireworkArray(seed) ==
    [idx \in Indices |->
        LET h == (seed * 41 + idx * 59) * 31
        IN  CASE CoordOf(idx) = 1 ->
                   (IF (seed + idx) % 2 = 0 THEN 1 ELSE -1) * (1000 + (h % 1000))
              [] CoordOf(idx) = 2 -> ((h % 3001) - 1500) + 250
              [] OTHER -> (h % 3001) - 1500]

\* The point the generator of the formation makes for each particle.
TargetArray(formation, seed) ==
    [idx \in Indices |->
        LET f == CASE formation = "TREE" -> 1 [] formation = "GIFT" -> 2
                   [] formation = "LOGO" -> 4 [] OTHER -> 3
        IN  (((seed * 43 + idx * 61 + f * 67) * 23) % 1201) - 600]

\* The colour each particle starts with, and the colour its point of the
\* formation has: three channels of 0 .. 255.
ColorsArray(seed) == [idx \in Indices |-> (seed * 17 + idx * 29) % 256]

TargetColorsArray(formation, seed) ==
    [idx \in Indices |->
        LET f == CASE formation = "TREE" -> 1 [] formation = "GIFT" -> 2
                   [] formation = "LOGO" -> 4 [] OTHER -> 3
        IN  (seed * 19 + idx * 31 + f * 47) % 256]

\* Math.random() * 0.025 + 0.01, in thousandths: 0.034 or 0.010.
SpeedsArray(seed) == [i \in Particles |-> IF (seed + i) % 2 = 0 THEN 34 ELSE 10]

\* delta * 60 of the frames the model renders: frames of 1/60 s and of 0.1 s.
DeltaInputs == {1, 6}

\* The formations the particle model switches between.
FoliageFormations == {"TREE", "GIFT"}

\* The model renders MaxFrames frames and keeps coordinates within MaxCoord.
MaxFrames == 2
MaxCoord == 20000

\* Division rounding toward zero.
TruncDiv(a, b) == IF a >= 0 THEN a \div b ELSE -((-a) \div b)

\* speeds are thousandths and config.particles.speed is tenths.
FactorDen == 1000 * 10

isFormed == appState = "FORMED"

\* isFirework without the test of the formation.
isFireworkAnyFormation == ~isFormed

isFirework == ~isFormed /\ config.formation = "GIFT"

\* lerpSpeed of particle i, times FactorDen: speeds[i] * lerpSpeedBase * (3 or
\* 1), with lerpSpeedBase = delta * 60 * config.particles.speed.
LerpSpeed(i, delta60) ==
    speeds[i] * (delta60 * config.speed) * (IF isFirework THEN 3 ELSE 1)

\* tx, ty, tz of the loop.
FrameTarget(idx) ==
    IF isFormed THEN targetPositions[idx]
    ELSE IF isFirework THEN fireworkPositions[idx]
    ELSE chaosPositions[idx]

\* posAttr.array[idx] += (t - posAttr.array[idx]) * lerpSpeed
Lerp(p, t, lerpSpeed) == p + TruncDiv((t - p) * lerpSpeed, FactorDen)

\* colAttr.array[idx] += (targetData.colors[idx] - colAttr.array[idx]) * lerpSpeed * 0.5
LerpColor(c, t, lerpSpeed) == c + TruncDiv((t - c) * lerpSpeed, 2 * FactorDen)

Abs(x) == IF x < 0 THEN -x ELSE x

\* The callback of useFrame for a frame of delta = delta60 / 60 seconds.
useFrame(delta60) ==
    LET next == [idx \in Indices |->
                    Lerp(positions[idx], FrameTarget(idx),
                         LerpSpeed(ParticleOf(idx), delta60))]
    IN  /\ frames < MaxFrames
        /\ \A idx \in Indices : Abs(next[idx]) <= MaxCoord
        /\ positions' = next
        /\ colors' = IF isFormed
                     THEN [idx \in Indices |->
                             LerpColor(colors[idx], targetColors[idx],
                                       LerpSpeed(ParticleOf(idx), delta60))]
                     ELSE colors
        /\ frames' = frames + 1
        /\ frameDelta' = delta60
        /\ Ran("frame", "")
        /\ UNCHANGED <<chaosPositions, fireworkPositions, targetPositions, targetColors,
                       speeds, logoPointCache, logoLoads, targetShape>>
        /\ UNCHANGED <<appState, config, gui, logoReader>>

\* The generator the target effect uses for a formation: the points of
\* logoPointCache for a text formation that has some, the built-in generator
\* of the formation otherwise.
TargetShape(formation, cache) ==
    IF formation \in TextFormations /\ formation \in cache THEN "LOGO" ELSE formation

\* uploadLogo's reader.onload and clearLogo store a new customLogos object;
\* every other handler keeps the one of the previous config.
NewCustomLogos == lastOp' \in {"uploadLogoOnLoad", "clearLogo"}

\* The render of Foliage after the shell changed config: a new count makes
\* or new colours make useMemo build new arrays (the particles start at their
\* chaos positions), a new formation, count or colours make the effect fill
\* targetData anew, and a new
\* customLogos makes the logo effect load the points of every logo it holds.
FoliageRender ==
    /\ IF config'.count # config.count \/ config'.colors # config.colors
       THEN \E seed \in Seeds :
               /\ chaosPositions' = ChaosArray(seed)
               /\ fireworkPositions' = FireworkArray(seed)
               /\ speeds' = SpeedsArray(seed)
               /\ positions' = ChaosArray(seed)
               /\ colors' = ColorsArray(seed)
       ELSE UNCHANGED <<chaosPositions, fireworkPositions, speeds, positions, colors>>
    /\ IF \/ config'.count # config.count
          \/ config'.formation # config.formation
          \/ config'.colors # config.colors
       THEN /\ targetShape' = TargetShape(config'.formation, logoPointCache)
            /\ \E seed \in Seeds :
                  /\ targetPositions' = TargetArray(targetShape', seed)
                  /\ targetColors' = TargetColorsArray(targetShape', seed)
       ELSE UNCHANGED <<targetPositions, targetColors, targetShape>>
    /\ logoLoads' = IF NewCustomLogos THEN logoLoads \cup config'.customLogos
                                      ELSE logoLoads
    /\ UNCHANGED <<frames, frameDelta, logoPointCache>>

\* A promise of getCanvasImagePoints resolves for the logo of formation f, with
\* points or with none.  Points are stored in logoPointCache, and the new
\* cache makes the target effect fill targetData anew.
logoPointsLoaded(f, hasPoints) ==
    /\ f \in logoLoads
    /\ logoLoads' = logoLoads \ {f}
    /\ IF hasPoints
       THEN /\ logoPointCache' = logoPointCache \cup {f}
            /\ targetShape' = TargetShape(config.formation, logoPointCache')
            /\ \E seed \in Seeds :
                  /\ targetPositions' = TargetArray(targetShape', seed)
                  /\ targetColors' = TargetColorsArray(targetShape', seed)
       ELSE UNCHANGED <<logoPointCache, targetShape, targetPositions, targetColors>>
    /\ Ran("logoPointsLoaded", f)
    /\ UNCHANGED <<chaosPositions, fireworkPositions, speeds, positions, colors,
                   frames, frameDelta>>
    /\ UNCHANGED <<appState, config, gui, logoReader>>

InitFoliage ==
    \E seed \in Seeds :
        /\ chaosPositions = ChaosArray(seed)
        /\ fireworkPositions = FireworkArray(seed)
        /\ speeds = SpeedsArray(seed)
        /\ positions = ChaosArray(seed)
        /\ targetPositions = TargetArray(config.formation, seed)
        /\ colors = ColorsArray(seed)
        /\ targetColors = TargetColorsArray(config.formation, seed)
        /\ frames = 0
        /\ frameDelta = 0
        /\ logoPointCache = {}
        /\ logoLoads = {}
        /\ targetShape = config.formation

\* The particle system at rest, for the specifications that do not run it.
IdleFoliage ==
    /\ chaosPositions = ChaosArray(1)
    /\ fireworkPositions = FireworkArray(1)
    /\ speeds = SpeedsArray(1)
    /\ positions = ChaosArray(1)
    /\ targetPositions = TargetArray("TREE", 1)
    /\ colors = ColorsArray(1)
    /\ targetColors = TargetColorsArray("TREE", 1)
    /\ frames = 0
    /\ frameDelta = 0
    /\ logoPointCache = {}
    /\ logoLoads = {}
    /\ targetShape = "TREE"

-----------------------------------------------------------------------------
(* GestureController: the classifier of onResults *)

Poses == {"IDLE", "ROTATE", "PEACE_ZOOM", "LIKE_SNAP", "FIST", "OPEN"}

\* Thresholds on the extension ratios, in tenths (1.3, 1.0, 1.1).
EXT_TH == 13
CURL_TH == 10
THUMB_EXT_TH == 11

\* The five rules of onResults over the extension ratios of index, middle, ring
\* and pinky, the thumb's ratio and thumbUp, which is thumbTip.y < lm[3].y.
RotateRule(iExt, mExt, rExt, pExt) ==
    iExt > EXT_TH /\ mExt < CURL_TH /\ rExt < CURL_TH /\ pExt < CURL_TH

PeaceRule(iExt, mExt, rExt, pExt) ==
    iExt > EXT_TH /\ mExt > EXT_TH /\ rExt < CURL_TH /\ pExt < CURL_TH

ThumbsUpRule(tExt, iExt, mExt, rExt, pExt, thumbUp) ==
    /\ tExt > THUMB_EXT_TH
    /\ iExt < CURL_TH /\ mExt < CURL_TH /\ rExt < CURL_TH /\ pExt < CURL_TH
    /\ thumbUp

FistRule(iExt, mExt, rExt, pExt) ==
    iExt < CURL_TH /\ mExt < CURL_TH /\ rExt < CURL_TH /\ pExt < CURL_TH

OpenRule(iExt, mExt, rExt, pExt) ==
    iExt > EXT_TH /\ mExt > EXT_TH /\ rExt > EXT_TH /\ pExt > EXT_TH

\* The rule chain with the FIST rule tried before the thumbs-up rule.
ClassifyFistFirst(tExt, iExt, mExt, rExt, pExt, thumbUp) ==
    IF RotateRule(iExt, mExt, rExt, pExt) THEN "ROTATE"
    ELSE IF PeaceRule(iExt, mExt, rExt, pExt) THEN "PEACE_ZOOM"
    ELSE IF FistRule(iExt, mExt, rExt, pExt) THEN "FIST"
    ELSE IF ThumbsUpRule(tExt, iExt, mExt, rExt, pExt, thumbUp) THEN "LIKE_SNAP"
    ELSE IF OpenRule(iExt, mExt, rExt, pExt) THEN "OPEN"
    ELSE "IDLE"

\* rawPose of onResults: the if / else-if chain over the rules.
Classify(tExt, iExt, mExt, rExt, pExt, thumbUp) ==
    IF RotateRule(iExt, mExt, rExt, pExt) THEN "ROTATE"
    ELSE IF PeaceRule(iExt, mExt, rExt, pExt) THEN "PEACE_ZOOM"
    ELSE IF ThumbsUpRule(tExt, iExt, mExt, rExt, pExt, thumbUp) THEN "LIKE_SNAP"
    ELSE IF FistRule(iExt, mExt, rExt, pExt) THEN "FIST"
    ELSE IF OpenRule(iExt, mExt, rExt, pExt) THEN "OPEN"
    ELSE "IDLE"

\* The extension ratios the classifier is tried on: 0.9 .. 1.4, which puts a
\* value below, at and above each threshold.
ExtLevels == 9 .. 14

\* The classifier applied to the hand.
classify ==
    /\ clsPose = "none"
    /\ clsPose' = Classify(clsHand[1], clsHand[2], clsHand[3], clsHand[4],
                           clsHand[5], clsHand[6])
    /\ Ran("classify", "")
    /\ UNCHANGED clsHand

\* The classifier at rest, for the specifications that do not run it alone.
IdleClassify ==
    /\ clsHand = <<9, 9, 9, 9, 9, FALSE>>
    /\ clsPose = "none"

-----------------------------------------------------------------------------
(* sampleRegions *)

\* Region lists hold up to MaxRegions regions of weight 0 .. MaxWeight.
MaxRegions == 3
MaxWeight == 2

\* Math.random() is smpDraw / RandomDen, in [0, 1).
RandomDen == 4

RegionColors == {"white", "red"}

Regions == [weight : 0 .. MaxWeight, color : RegionColors]

RegionLists == UNION {[1 .. n -> Regions] : n \in 0 .. MaxRegions}

\* regions.reduce((sum, r) => sum + r.weight, 0)
RECURSIVE WeightSum(_, _)
WeightSum(regions, n) ==
    IF n = 0 THEN 0 ELSE WeightSum(regions, n - 1) + regions[n].weight

\* The test of the loop with <= for <.
RegionHitInclusive(random, weight) == random <= weight * RandomDen

\* random < region.weight, both sides in units of 1 / RandomDen.
RegionHit(random, weight) == random < weight * RandomDen

\* The loop of sampleRegions from region k on: the generator of the first
\* region hit makes the point (pos names that region), or the fallback, a
\* point at the origin (pos 0) in PALETTE.white.
RECURSIVE SampleLoop(_, _, _)
SampleLoop(regions, k, random) ==
    IF k > Len(regions) THEN [pos |-> 0, color |-> "white"]
    ELSE IF RegionHit(random, regions[k].weight)
         THEN [pos |-> k, color |-> regions[k].color]
         ELSE SampleLoop(regions, k + 1, random - regions[k].weight * RandomDen)

\* sampleRegions(regions) when Math.random() returns draw / RandomDen; random
\* is Math.random() * totalWeight, in units of 1 / RandomDen.
sampleRegions(regions, draw) ==
    LET totalWeight == WeightSum(regions, Len(regions))
        random == draw * totalWeight
    IN  SampleLoop(regions, 1, random)

\* smpResult before the call.
NoResult == [pos |-> -1, color |-> "none"]

\* One call of sampleRegions.
sample ==
    /\ smpResult = NoResult
    /\ smpResult' = sampleRegions(smpRegions, smpDraw)
    /\ Ran("sample", "")
    /\ UNCHANGED <<smpRegions, smpDraw>>

\* The sampler at rest, for the specifications that do not run it alone.
IdleSample ==
    /\ smpRegions = <<>>
    /\ smpDraw = 0
    /\ smpResult = NoResult

-----------------------------------------------------------------------------
(* getTreePoint (math.ts): a random point of the tree cone *)

\* spiralTightness is given in 1 / TightnessDen.
TightnessDen == 2

\* Math.cos(angle) and Math.sin(angle) in 1 / DirDen: the angles whose
\* cosine and sine are both multiples of 1/5.
DirDen == 5
Directions ==
    {<<5, 0>>, <<0, 5>>, <<-5, 0>>, <<0, -5>>,
     <<3, 4>>, <<-4, 3>>, <<-3, -4>>, <<4, -3>>}

\* The ends of the panel's Height and Base Radius sliders, a spiral count of
\* zero and a positive one, the caller's vertical offset and none, and
\* 1 / densityBias for densityBias 1.0 and 0.5.
TreeHeights == {5, 20}
TreeRadii == {2, 8}
TreeSpirals == {0, 3}
TreeOffsets == {-2, 0}
DensityExponents == {1, 2}

RECURSIVE Pow(_, _)
Pow(b, e) == IF e = 0 THEN 1 ELSE b * Pow(b, e - 1)

\* One call's arguments and random draws. yDraw is the first Math.random()
\* and rootDraw is Math.sqrt(Math.random()), both in 1 / RandomDen; dir is
\* the cosine and sine of the angle the call ends up with.
TreeCalls ==
    [height : TreeHeights, maxRadius : TreeRadii, spirals : TreeSpirals,
     spiralTightness : 0 .. TightnessDen, verticalOffset : TreeOffsets,
     exponent : DensityExponents, yDraw : 0 .. RandomDen - 1,
     rootDraw : 0 .. RandomDen - 1, dir : Directions]

\* yNorm = Math.pow(Math.random(), 1 / densityBias), in 1 / YDen(a).
YDen(a) == Pow(RandomDen, a.exponent)
yNorm(a) == Pow(a.yDraw, a.exponent)

\* y = yNorm * height, in 1 / YDen(a).
TreeY(a) == yNorm(a) * a.height

\* rAtY = maxRadius * (1 - y / height), in 1 / YDen(a).
rAtY(a) == a.maxRadius * ((YDen(a) * a.height - TreeY(a)) \div a.height)

\* The factors of r are given in 1 / FactorDenTree.
FactorDenTree == 2 * TightnessDen * RandomDen

\* randomR + tightness * 0.5, without the weight (1 - randomR).
rFactorAdditive(a) ==
    IF a.spirals > 0
    THEN 2 * TightnessDen * a.rootDraw + RandomDen * a.spiralTightness
    ELSE 2 * TightnessDen * a.rootDraw

\* rFactor = randomR + (1 - randomR) * (spiralTightness * 0.5) on a spiral,
\* and Math.sqrt(Math.random()) without one.
rFactor(a) ==
    IF a.spirals > 0
    THEN 2 * TightnessDen * a.rootDraw
            + (RandomDen - a.rootDraw) * a.spiralTightness
    ELSE 2 * TightnessDen * a.rootDraw

\* x and z are given in 1 / XZDen(a), y in 1 / YDen(a).
XZDen(a) == YDen(a) * FactorDenTree * DirDen

getTreePoint(a) ==
    LET r == rAtY(a) * rFactor(a)
    IN  [x |-> r * a.dir[1],
         y |-> TreeY(a) + a.verticalOffset * YDen(a),
         z |-> r * a.dir[2]]

\* treePoint before the call.
NoPoint == [x |-> 0, y |-> -1000000, z |-> 0]

\* One call of getTreePoint.
plantTreePoint ==
    /\ treePoint = NoPoint
    /\ treePoint' = getTreePoint(treeArgs)
    /\ Ran("getTreePoint", "")
    /\ UNCHANGED treeArgs

\* getTreePoint at rest, for the specifications that do not run it alone.
IdleTree ==
    /\ treeArgs = [height |-> 5, maxRadius |-> 2, spirals |-> 0,
                   spiralTightness |-> 0, verticalOffset |-> 0,
                   exponent |-> 1, yDraw |-> 0, rootDraw |-> 0,
                   dir |-> <<5, 0>>]
    /\ treePoint = NoPoint

-----------------------------------------------------------------------------
(* GestureController: onResults *)

CONFIDENCE_THRESHOLD == 2
HOLD_MS == 300
SNAP_GAP_MS == 500
COOLDOWN_MS == 800

\* Result frames arrive TickMs or 3 * TickMs after the frame before, until the
\* clock has advanced by MaxTicks * TickMs.
TickMs == 100
MaxTicks == 12
Delays == {TickMs, 3 * TickMs}

\* Date.now() when the page starts: far more than SNAP_GAP_MS after time 0,
\* the initial lastSwitchTime.
StartTime == 2 * SNAP_GAP_MS

\* A counter of poseCounters grows with every frame of its pose; the model
\* takes no frame that would push one above MaxCount.
MaxCount == 4

\* The hands the model shows the camera: <<thumb, index, middle, ring, pinky,
\* thumbUp>>, extension ratios in tenths.
SampleHands ==
    {<<9, 12, 12, 12, 12, FALSE>>,      \* IDLE
     <<12, 9, 9, 9, 9, TRUE>>,          \* LIKE_SNAP
     <<12, 9, 9, 9, 9, FALSE>>,         \* FIST
     <<14, 14, 14, 14, 14, FALSE>>}     \* OPEN

\* The formations the shell's onSnap switches between.
SnapTargets == {"TREE", "GIFT"}

Max(a, b) == IF a > b THEN a ELSE b
Min(a, b) == IF a < b THEN a ELSE b

\* The counters after a frame of rawPose: every other counter loses one, down
\* to 0, and rawPose's counter gains one.
CountersAfter(counters, rawPose) ==
    [k \in Poses |-> IF k = rawPose THEN counters[k] + 1
                                    ELSE Max(0, counters[k] - 1)]

\* confirmedPose with the counter required to exceed the threshold.
ConfirmedLate(counters, rawPose) ==
    IF counters[rawPose] > CONFIDENCE_THRESHOLD THEN rawPose ELSE "IDLE"

\* confirmedPose without the threshold: the first frame of a pose confirms it.
ConfirmedAtOnce(counters, rawPose) ==
    IF counters[rawPose] >= 1 THEN rawPose ELSE "IDLE"

\* confirmedPose from the updated counters.
Confirmed(counters, rawPose) ==
    IF counters[rawPose] >= CONFIDENCE_THRESHOLD THEN rawPose ELSE "IDLE"

\* The snap branch without the primed flag.
SnapNowUnprimed(confirmedPose, t) ==
    /\ confirmedPose = "LIKE_SNAP"
    /\ t - lastSwitchTime > SNAP_GAP_MS

\* Whether the frame at time t calls onSnap.
SnapNow(confirmedPose, t) ==
    /\ confirmedPose = "LIKE_SNAP"
    /\ ~isSwitchPrimed
    /\ t - lastSwitchTime > SNAP_GAP_MS

\* The hold branch without the duration test.
HoldFiresAtOnce(confirmedPose, t) ==
    /\ confirmedPose \in {"FIST", "OPEN"}
    /\ currentPose = confirmedPose

\* Whether the frame at time t calls setAppState.
HoldFires(confirmedPose, t) ==
    /\ confirmedPose \in {"FIST", "OPEN"}
    /\ currentPose = confirmedPose
    /\ t - poseHoldStart > HOLD_MS

\* The argument of setAppState for a held pose.
HeldState(confirmedPose) == IF confirmedPose = "FIST" THEN "FORMED" ELSE "CHAOS"

\* The shell after the calls of one frame: onSnap() switches the formation to
\* v, setAppState stores the state of the held pose.
FrameCalls(confirmedPose, t, v) ==
    LET c1 == IF SnapNow(confirmedPose, t) THEN [config EXCEPT !.formation = v]
                                           ELSE config
        a1 == IF HoldFires(confirmedPose, t) THEN HeldState(confirmedPose)
                                             ELSE appState
    IN  Commit(a1, c1)

\* An age that stops growing above limit.
Aged(age, dt, limit) == Min(limit + TickMs, age + dt)

\* The history variables after a frame that came dt after the one before.
FrameHistory(rawPose, confirmedPose, snap, setTo, dt) ==
    /\ last' = [raw |-> rawPose, confirmed |-> confirmedPose,
                snap |-> snap, setTo |-> setTo]
    /\ snapAge' = IF snap THEN 0
                  ELSE IF snapAge = -1 THEN -1
                  ELSE Aged(snapAge, dt, SNAP_GAP_MS)
    /\ snapsInRun' = IF confirmedPose = "LIKE_SNAP"
                     THEN Min(2, snapsInRun + (IF snap THEN 1 ELSE 0))
                     ELSE 0
    /\ heldFor' = IF confirmedPose = last.confirmed THEN Aged(heldFor, dt, HOLD_MS)
                  ELSE 0
    /\ holdPose' = IF confirmedPose \in {"IDLE", "NOHAND"} THEN holdPose
                   ELSE confirmedPose
    /\ holdFor' = IF confirmedPose \in {"IDLE", "NOHAND", holdPose}
                  THEN Aged(holdFor, dt, HOLD_MS)
                  ELSE 0
    /\ setAge' = IF setTo # "NONE" THEN 0
                 ELSE IF setAge = -1 THEN -1
                 ELSE Aged(setAge, dt, COOLDOWN_MS)

\* onResults without a hand, dt after the frame before: the early return.
onResultsNoHand(dt) ==
    /\ now + dt <= StartTime + MaxTicks * TickMs
    /\ now' = now + dt
    /\ gesture' = "IDLE"
    /\ prevIndexPos' = FALSE
    /\ initialHandSize' = FALSE
    /\ UNCHANGED <<poseCounters, isSwitchPrimed, lastSwitchTime, poseHoldStart,
                   currentPose>>
    /\ FrameHistory("NOHAND", "NOHAND", FALSE, "NONE", dt)
    /\ Ran("onResults", "")
    /\ UNCHANGED <<appState, config, gui, logoReader>>

\* onResults with a hand h, dt after the frame before; v is the formation the
\* shell's onSnap switches to.  Date.now() returns t.
onResultsHand(h, dt, v) ==
    LET t == now + dt
        rawPose == Classify(h[1], h[2], h[3], h[4], h[5], h[6])
        counters == CountersAfter(poseCounters, rawPose)
        confirmedPose == Confirmed(counters, rawPose)
        snap == SnapNow(confirmedPose, t)
        fires == HoldFires(confirmedPose, t)
    IN  /\ v # config.formation
        /\ t <= StartTime + MaxTicks * TickMs
        /\ poseCounters[rawPose] < MaxCount
        /\ now' = t
        /\ poseCounters' = counters
        /\ gesture' = confirmedPose
        /\ prevIndexPos' = (confirmedPose = "ROTATE")
        /\ initialHandSize' = (confirmedPose = "PEACE_ZOOM")
        /\ isSwitchPrimed' = IF confirmedPose = "LIKE_SNAP"
                             THEN (snap \/ isSwitchPrimed)
                             ELSE FALSE
        /\ lastSwitchTime' = IF snap THEN t ELSE lastSwitchTime
        /\ currentPose' = IF confirmedPose \in {"FIST", "OPEN"} THEN confirmedPose
                          ELSE IF confirmedPose # "IDLE" THEN "NONE"
                          ELSE currentPose
        /\ poseHoldStart' = IF confirmedPose \in {"FIST", "OPEN"}
                            THEN (IF currentPose = confirmedPose
                                  THEN (IF fires THEN t + COOLDOWN_MS
                                                 ELSE poseHoldStart)
                                  ELSE t)
                            ELSE poseHoldStart
        /\ FrameCalls(confirmedPose, t, v)
        /\ FrameHistory(rawPose, confirmedPose, snap,
                        IF fires THEN HeldState(confirmedPose) ELSE "NONE", dt)
        /\ Ran("onResults", "")
        /\ UNCHANGED logoReader

InitGesture ==
    /\ now = StartTime
    /\ poseCounters = [k \in Poses |-> 0]
    /\ isSwitchPrimed = FALSE
    /\ lastSwitchTime = 0
    /\ poseHoldStart = 0
    /\ currentPose = "NONE"
    /\ gesture = "IDLE"
    /\ prevIndexPos = FALSE
    /\ initialHandSize = FALSE
    /\ last = [raw |-> "NOHAND", confirmed |-> "NOHAND", snap |-> FALSE,
               setTo |-> "NONE"]
    /\ snapAge = -1
    /\ snapsInRun = 0
    /\ heldFor = 0
    /\ holdPose = "NONE"
    /\ holdFor = 0
    /\ setAge = -1

\* The gesture controller alone, driving the shell.
InitG ==
    /\ InitShell
    /\ InitControls
    /\ InitGesture
    /\ IdleClassify
    /\ IdleSample
    /\ IdleTree
    /\ IdleFoliage
    /\ lastOp = "init"
    /\ lastArg = ""

NextG ==
    \/ \E dt \in Delays :
          onResultsNoHand(dt) /\ UNCHANGED <<classifyVars, sampleVars, treeVars, foliageVars>>
    \/ \E h \in SampleHands, dt \in Delays, v \in SnapTargets :
          onResultsHand(h, dt, v) /\ UNCHANGED <<classifyVars, sampleVars, treeVars, foliageVars>>

SpecGesture == InitG /\ [][NextG]_vars

-----------------------------------------------------------------------------
(* Specification of the classifier: every hand of ExtLevels, classified once *)

InitC ==
    /\ InitShell
    /\ InitControls
    /\ InitGesture
    /\ IdleSample
    /\ IdleTree
    /\ IdleFoliage
    /\ clsHand \in ExtLevels \X ExtLevels \X ExtLevels \X ExtLevels \X ExtLevels \X BOOLEAN
    /\ clsPose = "none"
    /\ lastOp = "init"
    /\ lastArg = ""

NextC ==
    classify /\ UNCHANGED <<appState, config, gui, logoReader, now, gestureVars,
                            gestureHistory, sampleVars, treeVars, foliageVars>>

SpecClassify == InitC /\ [][NextC]_vars

-----------------------------------------------------------------------------
(* Specification of the sampler: every region list and draw, sampled once *)

InitS ==
    /\ InitShell
    /\ InitControls
    /\ InitGesture
    /\ IdleClassify
    /\ IdleFoliage
    /\ smpRegions \in RegionLists
    /\ smpDraw \in 0 .. RandomDen - 1
    /\ smpResult = NoResult
    /\ IdleTree
    /\ lastOp = "init"
    /\ lastArg = ""

NextS ==
    sample /\ UNCHANGED <<appState, config, gui, logoReader, now, gestureVars,
                          gestureHistory, classifyVars, treeVars, foliageVars>>

SpecSample == InitS /\ [][NextS]_vars

-----------------------------------------------------------------------------
(* Specification of getTreePoint: every call of TreeCalls, made once *)

InitT ==
    /\ InitShell
    /\ InitControls
    /\ InitGesture
    /\ IdleClassify
    /\ IdleSample
    /\ IdleFoliage
    /\ treeArgs \in TreeCalls
    /\ treePoint = NoPoint
    /\ lastOp = "init"
    /\ lastArg = ""

NextT ==
    plantTreePoint
        /\ UNCHANGED <<appState, config, gui, logoReader, now, gestureVars,
                       gestureHistory, classifyVars, sampleVars, foliageVars>>

SpecTree == InitT /\ [][NextT]_vars

-----------------------------------------------------------------------------
(* Specification of the panel *)

Init ==
    /\ InitShell
    /\ InitControls
    /\ InitGesture
    /\ IdleClassify
    /\ IdleSample
    /\ IdleTree
    /\ IdleFoliage
    /\ lastOp = "init"
    /\ lastArg = ""

\* The panel leaves the other components alone.
GestureIdle ==
    UNCHANGED <<now, gestureVars, gestureHistory, classifyVars, sampleVars, treeVars, foliageVars>>

Next ==
    \/ toggleState /\ GestureIdle
    \/ \E v \in Formations : formationOnChange(v) /\ GestureIdle
    \/ \E v \in ScaleInputs : currentFormationScaleOnChange(v) /\ GestureIdle
    \/ \E v \in CountInputs : particleCountOnFinishChange(v) /\ GestureIdle
    \/ \E v \in SpeedInputs : particleSpeedOnChange(v) /\ GestureIdle
    \/ \E v \in BackgroundTypes : backgroundTypeOnChange(v) /\ GestureIdle
    \/ uploadLogo /\ GestureIdle
    \/ uploadLogoOnLoad /\ GestureIdle
    \/ clearLogo /\ GestureIdle
    \/ \E s \in AppStates : gestureSetAppState(s) /\ GestureIdle
    \/ \E v \in Formations : gestureSnap(v) /\ GestureIdle

Spec == Init /\ [][Next]_vars

-----------------------------------------------------------------------------
(* Specification of the particle system: frames between changes of the app   *)
(* state, the formation and the particle speed                               *)

FoliageIdle ==
    UNCHANGED <<now, gestureVars, gestureHistory, classifyVars, sampleVars, treeVars>>

InitF ==
    /\ InitShell
    /\ InitControls
    /\ InitGesture
    /\ IdleClassify
    /\ IdleSample
    /\ IdleTree
    /\ InitFoliage
    /\ lastOp = "init"
    /\ lastArg = ""

NextF ==
    \/ \E d \in DeltaInputs : useFrame(d) /\ FoliageIdle
    \/ toggleState /\ FoliageRender /\ FoliageIdle
    \/ \E v \in FoliageFormations : formationOnChange(v) /\ FoliageRender /\ FoliageIdle
    \/ \E v \in SpeedInputs : particleSpeedOnChange(v) /\ FoliageRender /\ FoliageIdle

SpecFoliage == InitF /\ [][NextF]_vars

-----------------------------------------------------------------------------
(* Specification of the custom logos: uploads and clears from the panel, the  *)
(* loading of their points by Foliage, and changes of formation and state    *)

InitL ==
    /\ InitShell
    /\ InitControls
    /\ InitGesture
    /\ IdleClassify
    /\ IdleSample
    /\ IdleTree
    /\ InitFoliage
    /\ lastOp = "init"
    /\ lastArg = ""

NextL ==
    \/ uploadLogo /\ FoliageRender /\ FoliageIdle
    \/ uploadLogoOnLoad /\ FoliageRender /\ FoliageIdle
    \/ clearLogo /\ FoliageRender /\ FoliageIdle
    \/ \E f \in Formations, hasPoints \in BOOLEAN :
          logoPointsLoaded(f, hasPoints) /\ FoliageIdle
    \/ \E v \in Formations : formationOnChange(v) /\ FoliageRender /\ FoliageIdle
    \/ toggleState /\ FoliageRender /\ FoliageIdle

SpecLogo == InitL /\ [][NextL]_vars

-----------------------------------------------------------------------------
(* Specification of the colour controls: colours picked in the Colors folder *)
(* between rebuilds of the panel                                             *)

InitK ==
    /\ InitShell
    /\ InitControls
    /\ InitGesture
    /\ IdleClassify
    /\ IdleSample
    /\ IdleTree
    /\ InitFoliage
    /\ lastOp = "init"
    /\ lastArg = ""

NextK ==
    \/ \E k \in ColorFields, v \in ColorInputs :
          colorOnChange(k, v) /\ FoliageRender /\ FoliageIdle
    \/ toggleState /\ FoliageRender /\ FoliageIdle

SpecColors == InitK /\ [][NextK]_vars

-----------------------------------------------------------------------------
(* Claims about the panel, checked under Spec *)

Flip(a) == IF a = "CHAOS" THEN "FORMED" ELSE "CHAOS"

\* C1: whatever panel actions and gesture calls came before, toggleState sets
\* the app state to FORMED when it is CHAOS and to CHAOS when it is FORMED (so
\* two toggles in a row restore the state).
C1_ToggleFlips ==
    [][lastOp' = "toggleState" => appState' = Flip(appState)]_vars

\* C1 witness: a toggle ran from FORMED and left CHAOS, and the panel was
\* rebuilt with the new state.
C1_Witness == lastOp = "toggleState" /\ appState = "CHAOS" /\ gui.appState = "CHAOS"

\* C10: selecting formation v sets config.formation to v, sets the particle
\* count to floor(70000 * s), s the scale stored for v in config.formationScales
\* when the selection is made (1.0 when none is stored), and leaves FORMED.
C10_FormationSelect ==
    [][lastOp' = "formation" =>
          /\ config'.formation = lastArg'
          /\ config'.count =
               (BASE_PARTICLE_COUNT * StoredScale(config.formationScales, lastArg'))
                   \div ScaleDen
          /\ appState' = "FORMED"]_vars

\* C10 witness: a formation with a stored scale of 7/12 was selected while the
\* count came from elsewhere: the count is floor(70000 * 7 / 12) = 40833.
C10_Witness ==
    /\ lastOp = "formation"
    /\ config.formationScales[config.formation] = 7
    /\ config.count = 40833
    /\ appState = "FORMED"

-----------------------------------------------------------------------------
(* Claims about the particle system, checked under SpecFoliage *)

\* The target the particle system is said to move coordinate idx toward.
StatedTarget(idx) ==
    IF appState = "FORMED" THEN targetPositions[idx]
    ELSE IF config.formation = "GIFT" THEN fireworkPositions[idx]
    ELSE chaosPositions[idx]

\* C2: on every frame each particle coordinate moves toward exactly one
\* target: the formation target when the app state is FORMED, the firework
\* position when it is CHAOS and the formation is GIFT, and the chaos position
\* when it is CHAOS with any other formation.  A coordinate never moves away
\* from that target, stays put when it is on it, and does move when the step
\* of the frame is a hundredth or more.
C2_TargetOfTheFrame ==
    [][lastOp' = "frame" =>
        \A idx \in Indices :
            LET p == positions[idx]
                q == positions'[idx]
                t == StatedTarget(idx)
            IN  /\ t > p => q >= p
                /\ t < p => q <= p
                /\ t = p => q = p
                /\ Abs(t - p) * LerpSpeed(ParticleOf(idx), frameDelta') >= FactorDen
                      => q # p]_vars

\* C2 witness: a frame in CHAOS with the GIFT formation has moved the
\* particles off their chaos positions, toward the firework positions.
C2_Witness ==
    /\ lastOp = "frame"
    /\ appState = "CHAOS"
    /\ config.formation = "GIFT"
    /\ \A idx \in Indices :
          /\ positions[idx] # chaosPositions[idx]
          /\ Abs(fireworkPositions[idx] - positions[idx])
                < Abs(fireworkPositions[idx] - chaosPositions[idx])

\* C3: the interpolation factor of every particle on every frame is within
\* [0, 1], so a coordinate never overshoots: after the frame it lies between
\* where it was and its target, no farther from the target than before.
C3_FactorWithinUnitInterval ==
    [][lastOp' = "frame" =>
        \A idx \in Indices :
            LET p == positions[idx]
                q == positions'[idx]
                t == FrameTarget(idx)
                f == LerpSpeed(ParticleOf(idx), frameDelta')
            IN  /\ 0 <= f
                /\ f <= FactorDen
                /\ Min(p, t) <= q
                /\ q <= Max(p, t)
                /\ Abs(t - q) <= Abs(t - p)]_vars

\* The tolerance of C4, in hundredths.
Tol == 500

\* C4: while state and formation are held fixed, a particle coordinate that
\* has come within the tolerance of its target stays within it on every
\* later frame.
C4_StaysWithinTolerance ==
    [][lastOp' = "frame" =>
        \A idx \in Indices :
            Abs(FrameTarget(idx) - positions[idx]) <= Tol
                => Abs(FrameTarget(idx) - positions'[idx]) <= Tol]_vars

-----------------------------------------------------------------------------
(* Claims about the custom logos, checked under SpecLogo *)

\* C11: after clearLogo has run for the current text formation,
\* config.customLogos has no entry for that formation and the target points
\* of Foliage for it come from the built-in generator of the formation, not
\* from the points of the logo uploaded before.
C11_ClearRestoresBuiltIn ==
    [][lastOp' = "clearLogo" =>
          /\ lastArg' = config'.formation
          /\ lastArg' \notin config'.customLogos
          /\ targetShape' = lastArg']_vars

-----------------------------------------------------------------------------
(* Claims about the colour controls, checked under SpecColors *)

\* C12: when the user changes a colour control of the Colors folder, the
\* field of config.colors the control stands for holds the colour picked.
C12_ColorControlUpdatesConfig ==
    [][lastOp' = "color" => config'.colors[lastArg'] = gui'.colors[lastArg']]_vars

-----------------------------------------------------------------------------
(* Claims about the gesture controller, checked under SpecGesture *)

\* C7, as claimed: setAppState is called with FORMED only for a confirmed
\* FIST, with CHAOS only for a confirmed OPEN, and only when that pose has been
\* the confirmed pose of every result frame for more than 300 ms.
C7_HeldWithoutInterruption ==
    last.setTo # "NONE" =>
        /\ last.setTo = "FORMED" => last.confirmed = "FIST"
        /\ last.setTo = "CHAOS" => last.confirmed = "OPEN"
        /\ heldFor > HOLD_MS

\* C7, amended: setAppState is called with FORMED only for a confirmed FIST,
\* with CHAOS only for a confirmed OPEN, and only more than 300 ms after that
\* pose was first confirmed with no other pose than IDLE confirmed since;
\* frames confirming IDLE and frames without a hand do not interrupt the hold.
C7_HeldSinceFirstConfirmed ==
    last.setTo # "NONE" =>
        /\ last.setTo = "FORMED" => last.confirmed = "FIST"
        /\ last.setTo = "CHAOS" => last.confirmed = "OPEN"
        /\ holdPose = last.confirmed
        /\ holdFor > HOLD_MS

\* C7 witness: a frame confirmed FIST, held for more than 300 ms, and called
\* setAppState(FORMED) while the app state was CHAOS.
C7_Witness ==
    /\ last.setTo = "FORMED"
    /\ last.confirmed = "FIST"
    /\ heldFor > HOLD_MS
    /\ appState = "FORMED"
    /\ gui.appState = "FORMED"

\* C8: onSnap is called at most once in a run of frames whose confirmed pose
\* is LIKE_SNAP, and a call of onSnap comes more than 500 ms after the call
\* before it.
C8_SnapOncePerGesture ==
    [][/\ snapsInRun' <= 1
       /\ last'.snap => (snapAge = -1 \/ snapAge + (now' - now) > SNAP_GAP_MS)]_vars

\* C8 witness: a run of LIKE_SNAP frames that called onSnap once, switching
\* the formation, and has lasted more than 500 ms since without another call.
C8_Witness ==
    /\ last.confirmed = "LIKE_SNAP"
    /\ snapsInRun = 1
    /\ ~last.snap
    /\ snapAge > SNAP_GAP_MS
    /\ config.formation = "GIFT"

\* C9, as claimed: a frame that confirms LIKE_SNAP after a frame that showed
\* another gesture (IDLE or no hand included), more than 500 ms after the last
\* onSnap call, calls onSnap.
C9_EveryNewThumbsUpSnaps ==
    [][(/\ last'.confirmed = "LIKE_SNAP"
        /\ gesture # "LIKE_SNAP"
        /\ (snapAge = -1 \/ snapAge + (now' - now) > SNAP_GAP_MS))
       => last'.snap]_vars

\* C13: when the classifier yields the same raw pose in two consecutive hand
\* frames, that pose is the confirmed pose of the second frame, whatever the
\* frames before were.
C13_TwoFramesConfirm ==
    [][(last'.raw # "NOHAND" /\ last.raw = last'.raw)
          => last'.confirmed = last'.raw]_vars

\* C13 witness: two FIST frames in a row confirmed FIST right after frames of
\* OPEN, whose counter is still positive.
C13_Witness ==
    /\ last.raw = "FIST"
    /\ last.confirmed = "FIST"
    /\ poseCounters["FIST"] = CONFIDENCE_THRESHOLD
    /\ poseCounters["OPEN"] >= 1

\* C14, as claimed: a pose other than IDLE is the confirmed pose of a result
\* frame only if the classifier yielded it in that frame and in the result
\* frame right before.
C14_ConfirmedOnlyAfterTwoInARow ==
    [][last'.confirmed \notin {"IDLE", "NOHAND"}
          => (last'.raw = last'.confirmed /\ last.raw = last'.confirmed)]_vars

\* C14, amended: a pose other than IDLE is the confirmed pose of a result
\* frame only if the classifier yielded it in that frame and its counter was
\* at least 1 before the frame: it was yielded in an earlier hand frame and
\* not outnumbered since; the earlier frame need not be the one right before.
C14_ConfirmedOnlyWithEarlierFrame ==
    [][last'.confirmed \notin {"IDLE", "NOHAND"}
          => (last'.raw = last'.confirmed /\ poseCounters[last'.confirmed] >= 1)]_vars

\* C14 witness: OPEN is confirmed in a frame that follows a frame of another
\* raw pose or without a hand.
C14_Witness ==
    /\ last.confirmed = "OPEN"
    /\ last.raw = "OPEN"
    /\ gesture = "OPEN"
    /\ poseCounters["OPEN"] >= CONFIDENCE_THRESHOLD
    /\ poseCounters["FIST"] >= 1

\* C15: after a held FIST or OPEN called setAppState at time t, no gesture
\* calls setAppState again before t + 800 ms.
C15_Cooldown ==
    [][last'.setTo # "NONE"
          => (setAge = -1 \/ setAge + (now' - now) >= COOLDOWN_MS)]_vars

-----------------------------------------------------------------------------
(* Claims about the classifier, checked under SpecClassify *)

\* C6: the classifier yields one of the six poses for every hand; the rules of
\* ROTATE, PEACE_ZOOM, FIST and OPEN are pairwise disjoint; and a hand that
\* satisfies the thumbs-up rule is classified LIKE_SNAP, never FIST.
C6_RuleTable ==
    clsPose # "none" =>
        LET t == clsHand[1]
            i == clsHand[2]
            m == clsHand[3]
            r == clsHand[4]
            p == clsHand[5]
            rules == <<RotateRule(i, m, r, p), PeaceRule(i, m, r, p),
                       FistRule(i, m, r, p), OpenRule(i, m, r, p)>>
        IN  /\ clsPose \in Poses
            /\ \A a, b \in 1 .. 4 : (a # b) => ~(rules[a] /\ rules[b])
            /\ ThumbsUpRule(t, i, m, r, p, clsHand[6]) => clsPose = "LIKE_SNAP"

\* C6 witness: a classified hand that satisfies the thumbs-up rule, and with
\* it the FIST rule.
C6_Witness ==
    /\ clsPose = "LIKE_SNAP"
    /\ ThumbsUpRule(clsHand[1], clsHand[2], clsHand[3], clsHand[4], clsHand[5], clsHand[6])
    /\ FistRule(clsHand[2], clsHand[3], clsHand[4], clsHand[5])

-----------------------------------------------------------------------------
(* Claims about sampleRegions, checked under SpecSample *)

\* w_1 + ... + w_k, in units of 1 / RandomDen.
RECURSIVE CumulativeWeight(_, _)
CumulativeWeight(regions, k) ==
    IF k = 0 THEN 0
    ELSE CumulativeWeight(regions, k - 1) + regions[k].weight * RandomDen

\* C5: for a non-empty list of positive total weight and a draw r in
\* [0, totalWeight), the result is the point and the colour of the one region
\* k with w_1 + ... + w_(k-1) <= r < w_1 + ... + w_k; a region of weight 0 is
\* never selected; the fallback comes only for an empty list or total weight 0.
C5_WeightedSampling ==
    smpResult # NoResult =>
        LET n == Len(smpRegions)
            total == CumulativeWeight(smpRegions, n)
            r == smpDraw * (total \div RandomDen)
            hit == {k \in 1 .. n : /\ CumulativeWeight(smpRegions, k - 1) <= r
                                   /\ r < CumulativeWeight(smpRegions, k)}
        IN  /\ (n > 0 /\ total > 0) =>
                /\ Cardinality(hit) = 1
                /\ smpResult.pos \in hit
                /\ smpResult.color = smpRegions[smpResult.pos].color
                /\ smpRegions[smpResult.pos].weight > 0
            /\ smpResult.pos = 0 => (n = 0 \/ total = 0)

\* C5 witness: the draw 0 passed over a first region of weight 0 and selected
\* the second region.
C5_Witness ==
    /\ smpResult # NoResult
    /\ Len(smpRegions) = 3
    /\ smpRegions[1].weight = 0
    /\ smpDraw = 0
    /\ smpResult.pos = 2
    /\ smpResult.color = "red"

-----------------------------------------------------------------------------
(* Claims about getTreePoint *)

\* C16: every point getTreePoint returns lies inside the cone: y minus the
\* vertical offset is in [0, height], and the horizontal distance
\* sqrt(x^2 + z^2) is at most maxRadius * (1 - (y - verticalOffset) / height).
\* Both sides of the distance test are non-negative and compared by their
\* squares, in 1 / XZDen(treeArgs); the integer division rounds the bound
\* down.
C16_InsideCone ==
    treePoint # NoPoint =>
        LET a == treeArgs
            yRel == treePoint.y - a.verticalOffset * YDen(a)
            bound == a.maxRadius * ((a.height * YDen(a) - yRel) \div a.height)
                        * FactorDenTree * DirDen
        IN  /\ 0 <= yRel
            /\ yRel <= a.height * YDen(a)
            /\ bound >= 0
            /\ treePoint.x * treePoint.x + treePoint.z * treePoint.z
                  <= bound * bound

\* C16 witness: a point on a fully tight spiral, off both axes, above the
\* base, drawn with the largest radius draw and the caller's offset -2.
C16_Witness ==
    /\ treePoint # NoPoint
    /\ treeArgs.spirals > 0
    /\ treeArgs.spiralTightness = TightnessDen
    /\ treeArgs.rootDraw = RandomDen - 1
    /\ treeArgs.yDraw > 0
    /\ treeArgs.exponent = 2
    /\ treeArgs.verticalOffset = -2
    /\ treePoint.x > 0
    /\ treePoint.z > 0
    /\ treePoint.y > -2 * YDen(treeArgs)

=============================================================================
